---- MODULE Spec2Model ----
(***************************************************************************)
(* A model of the Graph base class and of GraphAlgorithms (src/abc.py).    *)
(* The state is one Graph object (vertex count, mode flags, the adjacency  *)
(* store) together with the outcome of the caller's latest call.           *)
(***************************************************************************)
EXTENDS Integers, Sequences, FiniteSets, TLC

VARIABLES vertices, directed, weighted, adj, op, arg, res, calls, shared

vars == <<vertices, directed, weighted, adj, op, arg, res, calls, shared>>

\* Bounds of the model: Spec takes graphs of up to MaxVertices vertices and MaxEdges
\* inserted edges (MaxWeightedEdges when weighted), SpecAlgo unweighted graphs of up
\* to AlgoVertices vertices and AlgoEdges inserted edges.
MaxVertices == 3
MaxEdges == 2
MaxWeightedEdges == 1
AlgoVertices == 4
AlgoEdges == 3

\* The weights a caller passes to add_edge; 1 stands for the default 1.0.
Weights == {1, 2}

\* range(n)
Range0(n) == 0 .. (n - 1)

\* A returned value or a raised exception.
Ok(v) == [err |-> "none", val |-> v]
Raise(e) == [err |-> e, val |-> <<>>]

\* No object of the store is reachable from a value the caller holds.
NoSharing == [dict |-> FALSE, lists |-> {}]

(***************************************************************************)
(* sorted(neighbors, key=lambda x: x[0]): a new list, stable.              *)
(***************************************************************************)
RECURSIVE InsertByKey(_, _)
InsertByKey(s, x) ==
    IF s = <<>> THEN <<x>>
    ELSE IF s[Len(s)][1] <= x[1] THEN Append(s, x)
    ELSE Append(InsertByKey(SubSeq(s, 1, Len(s) - 1), x), s[Len(s)])

RECURSIVE SortedByKey(_)
SortedByKey(s) ==
    IF s = <<>> THEN <<>>
    ELSE InsertByKey(SortedByKey(SubSeq(s, 1, Len(s) - 1)), s[Len(s)])

\* list.sort() on a list of integers.
RECURSIVE InsertInt(_, _)
InsertInt(s, x) ==
    IF s = <<>> THEN <<x>>
    ELSE IF s[Len(s)] <= x THEN Append(s, x)
    ELSE Append(InsertInt(SubSeq(s, 1, Len(s) - 1), x), s[Len(s)])

RECURSIVE SortedInts(_)
SortedInts(s) ==
    IF s = <<>> THEN <<>>
    ELSE InsertInt(SortedInts(SubSeq(s, 1, Len(s) - 1)), s[Len(s)])

\* edges.sort(key=lambda x: (x[0], x[1])): lexicographic on pairs, stable.
PairLeq(a, b) == a[1] < b[1] \/ (a[1] = b[1] /\ a[2] <= b[2])

RECURSIVE InsertPair(_, _)
InsertPair(s, x) ==
    IF s = <<>> THEN <<x>>
    ELSE IF PairLeq(s[Len(s)], x) THEN Append(s, x)
    ELSE Append(InsertPair(SubSeq(s, 1, Len(s) - 1), x), s[Len(s)])

RECURSIVE SortedPairs(_)
SortedPairs(s) ==
    IF s = <<>> THEN <<>>
    ELSE InsertPair(SortedPairs(SubSeq(s, 1, Len(s) - 1)), s[Len(s)])

(***************************************************************************)
(* Graph.get_adjacency_list.  The value gives the store after the call,    *)
(* the returned mapping, and which objects of the store the returned       *)
(* mapping shares (none: the dict and every list are new objects).         *)
(***************************************************************************)
\* neighbors.sort() in place, and the store's own lists handed out.
get_adjacency_list_inplace(store) ==
    [store  |-> [u \in DOMAIN store |-> SortedByKey(store[u])],
     view   |-> [u \in DOMAIN store |-> SortedByKey(store[u])],
     shared |-> [dict |-> FALSE, lists |-> DOMAIN store]]

\* The lists are copied without being sorted.
get_adjacency_list_unsorted(store) ==
    [store  |-> store,
     view   |-> [u \in DOMAIN store |-> store[u]],
     shared |-> NoSharing]

get_adjacency_list(store) ==
    [store  |-> store,
     view   |-> [u \in DOMAIN store |-> SortedByKey(store[u])],
     shared |-> NoSharing]

(***************************************************************************)
(* Graph.get_adjacency_matrix: rows of zeros, then matrix[u][v] = weight   *)
(* for every record of the store in order (the last record wins).          *)
(***************************************************************************)
RECURSIVE MatrixRow(_, _, _)
MatrixRow(row, records, i) ==
    IF i > Len(records) THEN row
    ELSE MatrixRow([row EXCEPT ![records[i][1]] = records[i][2]], records, i + 1)

get_adjacency_matrix(n, store) ==
    [u \in Range0(n) |-> MatrixRow([v \in Range0(n) |-> 0], store[u], 1)]

(***************************************************************************)
(* Graph.get_incidence_matrix.                                             *)
(***************************************************************************)
RECURSIVE EdgesOfVertex(_, _, _, _)
EdgesOfVertex(isDirected, u, records, i) ==
    IF i > Len(records) THEN <<>>
    ELSE LET v == records[i][1]
             rest == EdgesOfVertex(isDirected, u, records, i + 1)
         IN  IF isDirected THEN <<<<u, v>>>> \o rest
             ELSE IF u < v THEN <<<<u, v>>>> \o rest
             ELSE rest

RECURSIVE CollectEdges(_, _, _, _)
CollectEdges(n, isDirected, store, u) ==
    IF u >= n THEN <<>>
    ELSE EdgesOfVertex(isDirected, u, store[u], 1)
             \o CollectEdges(n, isDirected, store, u + 1)

IncidenceEdges(n, isDirected, store) ==
    SortedPairs(CollectEdges(n, isDirected, store, 0))

get_incidence_matrix(n, isDirected, store) ==
    LET edges == IncidenceEdges(n, isDirected, store)
    IN  [r \in Range0(n) |->
            [c \in 1 .. Len(edges) |->
                IF r = edges[c][2] THEN 1
                ELSE IF r = edges[c][1] THEN (IF isDirected THEN -1 ELSE 1)
                ELSE 0]]

(***************************************************************************)
(* GraphAlgorithms.bfs.  visited is the list of booleans, queue the deque. *)
(* The value gives the result (or the exception), the number of            *)
(* get_adjacency_list calls made, and the store after the call.            *)
(***************************************************************************)
\* for v, _ in adj[u]: if not visited[v]: visited[v] = True; queue.append(v)
RECURSIVE BfsExpand(_, _, _, _)
BfsExpand(nbrs, i, visited, queue) ==
    IF i > Len(nbrs) THEN [visited |-> visited, queue |-> queue]
    ELSE LET v == nbrs[i][1]
         IN  IF ~visited[v]
             THEN BfsExpand(nbrs, i + 1, [visited EXCEPT ![v] = TRUE], Append(queue, v))
             ELSE BfsExpand(nbrs, i + 1, visited, queue)

\* while queue: u = queue.popleft(); visit_order.append(u); ...
RECURSIVE BfsLoop(_, _, _, _)
BfsLoop(adjv, visited, queue, order) ==
    IF queue = <<>> THEN order
    ELSE LET u == Head(queue)
             st == BfsExpand(adjv[u], 1, visited, Tail(queue))
         IN  BfsLoop(adjv, st.visited, st.queue, Append(order, u))

\* The range check admits start = n; visited[start] = True then raises IndexError,
\* after the adjacency list was obtained.
bfs_late_check(n, store, start) ==
    IF ~(0 <= start /\ start <= n)
    THEN [res |-> Raise("IndexError"), calls |-> 0, store |-> store]
    ELSE LET r == get_adjacency_list(store)
         IN  IF start = n
             THEN [res |-> Raise("IndexError"), calls |-> 1, store |-> r.store]
             ELSE [res   |-> Ok(BfsLoop(r.view,
                                        [v \in Range0(n) |-> v = start],
                                        <<start>>, <<>>)),
                   calls |-> 1,
                   store |-> r.store]

\* A vertex is marked visited when dequeued instead of when enqueued.
RECURSIVE BfsLoopMarkLate(_, _, _, _)
BfsLoopMarkLate(adjv, visited, queue, order) ==
    IF queue = <<>> THEN order
    ELSE LET u == Head(queue)
             vis == [visited EXCEPT ![u] = TRUE]
             new == SelectSeq(adjv[u], LAMBDA t : ~vis[t[1]])
         IN  BfsLoopMarkLate(adjv, vis,
                             Tail(queue) \o [k \in 1 .. Len(new) |-> new[k][1]],
                             Append(order, u))

bfs_mark_late(n, store, start) ==
    IF ~(0 <= start /\ start < n)
    THEN [res |-> Raise("IndexError"), calls |-> 0, store |-> store]
    ELSE LET r == get_adjacency_list(store)
         IN  [res   |-> Ok(BfsLoopMarkLate(r.view, [v \in Range0(n) |-> FALSE],
                                           <<start>>, <<>>)),
              calls |-> 1,
              store |-> r.store]

bfs(n, store, start) ==
    IF ~(0 <= start /\ start < n)
    THEN [res |-> Raise("IndexError"), calls |-> 0, store |-> store]
    ELSE LET r == get_adjacency_list(store)
         IN  [res   |-> Ok(BfsLoop(r.view,
                                   [v \in Range0(n) |-> v = start],
                                   <<start>>, <<>>)),
              calls |-> 1,
              store |-> r.store]

(***************************************************************************)
(* GraphAlgorithms.dfs.  st holds visited and visit_order, which the       *)
(* nested function _dfs_recursive updates in place.                        *)
(***************************************************************************)
RECURSIVE DfsRecursive(_, _, _)
RECURSIVE DfsFor(_, _, _, _)

\* visited[u] = True; visit_order.append(u); then the loop over adj[u]
DfsRecursive(adjv, u, st) ==
    DfsFor(adjv, u, 1, [visited |-> [st.visited EXCEPT ![u] = TRUE],
                        order   |-> Append(st.order, u)])

\* for v, _ in adj[u]: if not visited[v]: _dfs_recursive(v)
DfsFor(adjv, u, i, st) ==
    IF i > Len(adjv[u]) THEN st
    ELSE LET v == adjv[u][i][1]
         IN  IF ~st.visited[v]
             THEN DfsFor(adjv, u, i + 1, DfsRecursive(adjv, v, st))
             ELSE DfsFor(adjv, u, i + 1, st)

\* The neighbours unvisited on entry are all entered, without a second look at visited.
RECURSIVE DfsRecursiveStale(_, _, _)
RECURSIVE DfsForStale(_, _, _, _)
DfsRecursiveStale(adjv, u, st) ==
    LET st1 == [visited |-> [st.visited EXCEPT ![u] = TRUE],
                order   |-> Append(st.order, u)]
    IN  DfsForStale(adjv, SelectSeq(adjv[u], LAMBDA t : ~st1.visited[t[1]]), 1, st1)

DfsForStale(adjv, todo, i, st) ==
    IF i > Len(todo) THEN st
    ELSE DfsForStale(adjv, todo, i + 1, DfsRecursiveStale(adjv, todo[i][1], st))

dfs_stale_check(n, store, start) ==
    IF ~(0 <= start /\ start < n)
    THEN [res |-> Raise("IndexError"), calls |-> 0, store |-> store]
    ELSE LET r == get_adjacency_list(store)
             st == DfsRecursiveStale(r.view, start,
                                     [visited |-> [v \in Range0(n) |-> FALSE],
                                      order   |-> <<>>])
         IN  [res |-> Ok(st.order), calls |-> 1, store |-> r.store]

dfs(n, store, start) ==
    IF ~(0 <= start /\ start < n)
    THEN [res |-> Raise("IndexError"), calls |-> 0, store |-> store]
    ELSE LET r == get_adjacency_list(store)
             st == DfsRecursive(r.view, start,
                                [visited |-> [v \in Range0(n) |-> FALSE],
                                 order   |-> <<>>])
         IN  [res |-> Ok(st.order), calls |-> 1, store |-> r.store]

(***************************************************************************)
(* GraphAlgorithms.connected_components.                                   *)
(***************************************************************************)
InSeq(x, s) == \E k \in 1 .. Len(s) : s[k] = x

\* if v not in temp_adj[u]: temp_adj[u].append(v)
AppendIfAbsent(temp, u, v) ==
    IF InSeq(v, temp[u]) THEN temp ELSE [temp EXCEPT ![u] = Append(@, v)]

\* Only the stored direction is added.
RECURSIVE TempAdjOfVertexOneWay(_, _, _, _)
TempAdjOfVertexOneWay(temp, u, records, i) ==
    IF i > Len(records) THEN temp
    ELSE TempAdjOfVertexOneWay(AppendIfAbsent(temp, u, records[i][1]), u, records, i + 1)

\* for v, _ in adj_list[u]: both directions are added to temp_adj
RECURSIVE TempAdjOfVertex(_, _, _, _)
TempAdjOfVertex(temp, u, records, i) ==
    IF i > Len(records) THEN temp
    ELSE LET v == records[i][1]
         IN  TempAdjOfVertex(AppendIfAbsent(AppendIfAbsent(temp, u, v), v, u),
                             u, records, i + 1)

RECURSIVE BuildTempAdj(_, _, _, _)
BuildTempAdj(n, adjv, temp, u) ==
    IF u >= n THEN temp
    ELSE BuildTempAdj(n, adjv, TempAdjOfVertex(temp, u, adjv[u], 1), u + 1)

\* for v in temp_adj[u]: if not visited[v]: visited[v] = True; queue.append(v)
RECURSIVE CompExpand(_, _, _, _)
CompExpand(nbrs, i, visited, queue) ==
    IF i > Len(nbrs) THEN [visited |-> visited, queue |-> queue]
    ELSE LET v == nbrs[i]
         IN  IF ~visited[v]
             THEN CompExpand(nbrs, i + 1, [visited EXCEPT ![v] = TRUE], Append(queue, v))
             ELSE CompExpand(nbrs, i + 1, visited, queue)

\* The inner while loop; the value is the component and the visited list.
RECURSIVE CompLoop(_, _, _, _)
CompLoop(temp, visited, queue, component) ==
    IF queue = <<>> THEN [visited |-> visited, component |-> component]
    ELSE LET u == Head(queue)
             st == CompExpand(temp[u], 1, visited, Tail(queue))
         IN  CompLoop(temp, st.visited, st.queue, Append(component, u))

\* The component is left in the order of discovery.
SortComponentSkipped(c) == c

\* component.sort()
SortComponent(c) == SortedInts(c)

\* for i in range(n): if not visited[i]: ... components.append(component)
RECURSIVE CompScan(_, _, _, _, _)
CompScan(n, temp, visited, components, i) ==
    IF i >= n THEN components
    ELSE IF visited[i] THEN CompScan(n, temp, visited, components, i + 1)
    ELSE LET st == CompLoop(temp, [visited EXCEPT ![i] = TRUE], <<i>>, <<>>)
         IN  CompScan(n, temp, st.visited,
                      Append(components, SortComponent(st.component)), i + 1)

connected_components(n, store) ==
    LET r == get_adjacency_list(store)
        built == BuildTempAdj(n, r.view, [i \in Range0(n) |-> <<>>], 0)
        temp == [u \in Range0(n) |-> SortedInts(built[u])]
        components == CompScan(n, temp, [i \in Range0(n) |-> FALSE], <<>>, 0)
    IN  [res   |-> Ok(SortedByKey(components)),
         calls |-> 1,
         store |-> r.store]

(***************************************************************************)
(* GraphAlgorithms.components_with_stats.                                  *)
(***************************************************************************)
\* The test u < v is missing: both records of an undirected edge count.
RECURSIVE CountFromVertexBothSides(_, _, _, _, _)
CountFromVertexBothSides(isDirected, u, records, comp_set, i) ==
    IF i > Len(records) THEN 0
    ELSE (IF records[i][1] \in comp_set THEN 1 ELSE 0)
             + CountFromVertexBothSides(isDirected, u, records, comp_set, i + 1)

\* for v, _ in adj[u]: the records that count towards edge_count
RECURSIVE CountFromVertex(_, _, _, _, _)
CountFromVertex(isDirected, u, records, comp_set, i) ==
    IF i > Len(records) THEN 0
    ELSE LET v == records[i][1]
             hit == IF isDirected THEN v \in comp_set ELSE u < v /\ v \in comp_set
         IN  (IF hit THEN 1 ELSE 0)
                 + CountFromVertex(isDirected, u, records, comp_set, i + 1)

\* for u in component_vertices: ...
RECURSIVE CountEdges(_, _, _, _, _)
CountEdges(isDirected, adjv, component, comp_set, k) ==
    IF k > Len(component) THEN 0
    ELSE CountFromVertex(isDirected, component[k], adjv[component[k]], comp_set, 1)
             + CountEdges(isDirected, adjv, component, comp_set, k + 1)

ComponentStats(isDirected, adjv, component) ==
    [vertices        |-> component,
     node_count      |-> Len(component),
     edge_count      |-> CountEdges(isDirected, adjv, component,
                                    {component[k] : k \in 1 .. Len(component)}, 1),
     smallest_vertex |-> component[1]]

\* The edge count is not negated: fewer edges first.
StatsKeyEdgesAscending(s) == <<0 - s.node_count, s.edge_count, s.smallest_vertex>>

\* key=lambda s: (-s["node_count"], -s["edge_count"], s["smallest_vertex"])
StatsKey(s) == <<0 - s.node_count, 0 - s.edge_count, s.smallest_vertex>>

TripleLeq(a, b) ==
    \/ a[1] < b[1]
    \/ a[1] = b[1] /\ a[2] < b[2]
    \/ a[1] = b[1] /\ a[2] = b[2] /\ a[3] <= b[3]

\* stats_list.sort(key=...), stable.
RECURSIVE InsertStats(_, _)
InsertStats(s, x) ==
    IF s = <<>> THEN <<x>>
    ELSE IF TripleLeq(StatsKey(s[Len(s)]), StatsKey(x)) THEN Append(s, x)
    ELSE Append(InsertStats(SubSeq(s, 1, Len(s) - 1), x), s[Len(s)])

RECURSIVE SortedStats(_)
SortedStats(s) ==
    IF s = <<>> THEN <<>>
    ELSE InsertStats(SortedStats(SubSeq(s, 1, Len(s) - 1)), s[Len(s)])

components_with_stats(n, isDirected, store) ==
    LET c == connected_components(n, store)
        r == get_adjacency_list(c.store)
        comps == c.res.val
        stats_list == [k \in 1 .. Len(comps) |->
                          ComponentStats(isDirected, r.view, comps[k])]
    IN  [res   |-> Ok(SortedStats(stats_list)),
         calls |-> c.calls + 1,
         store |-> r.store]

(***************************************************************************)
(* add_edge of the concrete graph: the range checks, the self-loop check,  *)
(* the weight 1.0 of an unweighted graph, and one record per direction.    *)
(***************************************************************************)
add_edge(n, isDirected, isWeighted, store, u, v, weight) ==
    IF ~(0 <= u /\ u < n) \/ ~(0 <= v /\ v < n)
    THEN [res |-> Raise("IndexError"), store |-> store]
    ELSE IF u = v
    THEN [res |-> Raise("ValueError"), store |-> store]
    ELSE LET w == IF isWeighted THEN weight ELSE 1
             s1 == [store EXCEPT ![u] = Append(@, <<v, w>>)]
         IN  [res   |-> Ok(<<>>),
              store |-> IF isDirected THEN s1
                        ELSE [s1 EXCEPT ![v] = Append(@, <<u, w>>)]]

\* The number of records of the store, and of edges inserted so far.
RECURSIVE RecordCount(_, _, _)
RecordCount(n, store, u) ==
    IF u >= n THEN 0 ELSE Len(store[u]) + RecordCount(n, store, u + 1)

InsertedEdges == RecordCount(vertices, adj, 0) \div (IF directed THEN 1 ELSE 2)

EdgeBound == IF weighted THEN MaxWeightedEdges ELSE MaxEdges

(***************************************************************************)
(* The state machine: a constructed graph and the caller's calls on it.    *)
(***************************************************************************)
\* Graph.__init__ with vertices >= 0.
Init ==
    /\ vertices \in 0 .. MaxVertices
    /\ directed \in BOOLEAN
    /\ weighted \in BOOLEAN
    /\ adj = [i \in Range0(vertices) |-> <<>>]
    /\ op = "init"
    /\ arg = <<>>
    /\ res = Ok(<<>>)
    /\ calls = 0
    /\ shared = NoSharing

\* add_edge(u, v, w) with the arguments drawn from ends and ws, while fewer than
\* limit edges were inserted.
AddEdgeFrom(ends, ws, limit) ==
    \E u \in ends, v \in ends, w \in ws :
        LET r == add_edge(vertices, directed, weighted, adj, u, v, w)
        IN  /\ r.res.err = "none" => InsertedEdges < limit
            /\ adj' = r.store
            /\ op' = "add_edge"
            /\ arg' = <<>>
            /\ res' = r.res
            /\ calls' = 0
            /\ shared' = NoSharing
            /\ UNCHANGED <<vertices, directed, weighted>>

AddEdge == AddEdgeFrom(-1 .. vertices, Weights, EdgeBound)

GetAdjacencyList ==
    LET r == get_adjacency_list(adj)
    IN  /\ adj' = r.store
        /\ op' = "get_adjacency_list"
        /\ arg' = <<>>
        /\ res' = Ok(r.view)
        /\ calls' = 1
        /\ shared' = r.shared
        /\ UNCHANGED <<vertices, directed, weighted>>

\* What the caller may do to a list it holds.
MutateList(kind, u, l) ==
    CASE kind = "append" -> Append(l, <<u, 1>>)
      [] kind = "pop"    -> SubSeq(l, 1, Len(l) - 1)

\* The caller changes the mapping returned by the latest get_adjacency_list():
\* view[u].append(...), view[u].pop(), or view[u] = [].  A change reaches the store
\* exactly through the objects the mapping shares with it.
MutateView ==
    /\ op = "get_adjacency_list"
    /\ \E u \in Range0(vertices), kind \in {"append", "pop", "assign"} :
        /\ kind = "pop" => res.val[u] # <<>>
        /\ IF kind = "assign"
           THEN /\ res' = Ok([res.val EXCEPT ![u] = <<>>])
                /\ adj' = IF shared.dict THEN [adj EXCEPT ![u] = <<>>] ELSE adj
                /\ shared' = [shared EXCEPT !.lists = @ \ {u}]
           ELSE /\ res' = Ok([res.val EXCEPT ![u] = MutateList(kind, u, @)])
                /\ adj' = IF shared.dict \/ u \in shared.lists
                          THEN [adj EXCEPT ![u] = MutateList(kind, u, @)]
                          ELSE adj
                /\ shared' = shared
        /\ arg' = <<u>>
    /\ op' = "mutate_view"
    /\ calls' = 0
    /\ UNCHANGED <<vertices, directed, weighted>>

GetAdjacencyMatrix ==
    /\ op' = "get_adjacency_matrix"
    /\ arg' = <<>>
    /\ res' = Ok(get_adjacency_matrix(vertices, adj))
    /\ calls' = 0
    /\ shared' = NoSharing
    /\ UNCHANGED <<vertices, directed, weighted, adj>>

GetIncidenceMatrix ==
    /\ op' = "get_incidence_matrix"
    /\ arg' = <<>>
    /\ res' = Ok(get_incidence_matrix(vertices, directed, adj))
    /\ calls' = 0
    /\ shared' = NoSharing
    /\ UNCHANGED <<vertices, directed, weighted, adj>>

Bfs ==
    \E start \in -1 .. vertices :
        LET r == bfs(vertices, adj, start)
        IN  /\ adj' = r.store
            /\ op' = "bfs"
            /\ arg' = <<start>>
            /\ res' = r.res
            /\ calls' = r.calls
            /\ shared' = NoSharing
            /\ UNCHANGED <<vertices, directed, weighted>>

Dfs ==
    \E start \in -1 .. vertices :
        LET r == dfs(vertices, adj, start)
        IN  /\ adj' = r.store
            /\ op' = "dfs"
            /\ arg' = <<start>>
            /\ res' = r.res
            /\ calls' = r.calls
            /\ shared' = NoSharing
            /\ UNCHANGED <<vertices, directed, weighted>>

ConnectedComponents ==
    LET r == connected_components(vertices, adj)
    IN  /\ adj' = r.store
        /\ op' = "connected_components"
        /\ arg' = <<>>
        /\ res' = r.res
        /\ calls' = r.calls
        /\ shared' = NoSharing
        /\ UNCHANGED <<vertices, directed, weighted>>

ComponentsWithStats ==
    LET r == components_with_stats(vertices, directed, adj)
    IN  /\ adj' = r.store
        /\ op' = "components_with_stats"
        /\ arg' = <<>>
        /\ res' = r.res
        /\ calls' = r.calls
        /\ shared' = NoSharing
        /\ UNCHANGED <<vertices, directed, weighted>>

Next ==
    \/ AddEdge
    \/ GetAdjacencyList
    \/ MutateView
    \/ GetAdjacencyMatrix
    \/ GetIncidenceMatrix
    \/ Bfs
    \/ Dfs
    \/ ConnectedComponents
    \/ ComponentsWithStats

Spec == Init /\ [][Next]_vars

(***************************************************************************)
(* Build, then query: an unweighted graph of up to AlgoVertices vertices   *)
(* receives its edges, and the algorithms are then applied to it.          *)
(***************************************************************************)
InitAlgo ==
    /\ vertices \in 0 .. AlgoVertices
    /\ directed \in BOOLEAN
    /\ weighted = FALSE
    /\ adj = [i \in Range0(vertices) |-> <<>>]
    /\ op = "init"
    /\ arg = <<>>
    /\ res = Ok(<<>>)
    /\ calls = 0
    /\ shared = NoSharing

Building == op \in {"init", "add_edge"}

\* add_edge with both ends in range (a self-loop is refused).
AddEdgeAlgo == Building /\ AddEdgeFrom(Range0(vertices), {1}, AlgoEdges)
BfsBuilt == Building /\ Bfs
DfsBuilt == Building /\ Dfs
ConnectedComponentsBuilt == Building /\ ConnectedComponents
ComponentsWithStatsBuilt == Building /\ ComponentsWithStats

NextAlgo ==
    \/ AddEdgeAlgo
    \/ BfsBuilt
    \/ DfsBuilt
    \/ ConnectedComponentsBuilt
    \/ ComponentsWithStatsBuilt

SpecAlgo == InitAlgo /\ [][NextAlgo]_vars

(***************************************************************************)
(* Reference notions the claims are stated with, read off the store.       *)
(***************************************************************************)
SeqSet(s) == {s[k] : k \in 1 .. Len(s)}

NoRepeat(s) == \A i \in 1 .. Len(s), j \in 1 .. Len(s) : i # j => s[i] # s[j]

StrictlyAscending(s) == \A k \in 1 .. Len(s) - 1 : s[k] < s[k + 1]

\* The vertices v with a stored record (u, v).
Succ(store, u) == {store[u][k][1] : k \in 1 .. Len(store[u])}

\* The vertices joined to u by a stored record, in either direction.
Linked(store, u) == Succ(store, u) \cup {v \in DOMAIN store : u \in Succ(store, v)}

\* The vertices reachable from those of S along stored records.
RECURSIVE ReachFrom(_, _)
ReachFrom(store, S) ==
    LET T == S \cup UNION {Succ(store, u) : u \in S}
    IN  IF T = S THEN S ELSE ReachFrom(store, T)

\* The vertices joined to those of S by a path that ignores direction.
RECURSIVE JoinedTo(_, _)
JoinedTo(store, S) ==
    LET T == S \cup UNION {Linked(store, u) : u \in S}
    IN  IF T = S THEN S ELSE JoinedTo(store, T)

\* The component containing v in a result of connected_components.
ComponentOf(comps, v) ==
    UNION {SeqSet(comps[k]) : k \in {i \in 1 .. Len(comps) : v \in SeqSet(comps[i])}}

\* The elements of a set of integers in ascending order.
RECURSIVE Ascending(_)
Ascending(S) ==
    IF S = {} THEN <<>>
    ELSE LET m == CHOOSE x \in S : \A y \in S : x <= y
         IN  <<m>> \o Ascending(S \ {m})

\* The hop distance from start of every reachable vertex, layer by layer.
RECURSIVE Layers(_, _, _, _, _)
Layers(store, frontier, seen, d, dist) ==
    IF frontier = {} THEN dist
    ELSE LET next == UNION {Succ(store, u) : u \in frontier} \ seen
         IN  Layers(store, next, seen \cup next, d + 1,
                    [v \in DOMAIN dist \cup next |->
                        IF v \in DOMAIN dist THEN dist[v] ELSE d + 1])

HopDistance(store, start) ==
    Layers(store, {start}, {start}, 0, [v \in {start} |-> 0])

\* Breadth-first order over the set of edges: a FIFO frontier, the neighbours of
\* each vertex taken in ascending order.
RECURSIVE ReferenceBfs(_, _, _, _)
ReferenceBfs(store, seen, queue, order) ==
    IF queue = <<>> THEN order
    ELSE LET u == Head(queue)
             new == Succ(store, u) \ seen
         IN  ReferenceBfs(store, seen \cup new, Tail(queue) \o Ascending(new),
                          Append(order, u))

\* Depth-first preorder with an explicit stack: a popped vertex is recorded unless
\* it was recorded before, and its neighbours are pushed in reversed order, so that
\* the smallest is popped first.  The top of the stack is its head.
RECURSIVE StackDfs(_, _, _, _)
StackDfs(store, seen, stack, order) ==
    IF stack = <<>> THEN order
    ELSE LET u == Head(stack)
         IN  IF u \in seen THEN StackDfs(store, seen, Tail(stack), order)
             ELSE StackDfs(store, seen \cup {u},
                           Ascending(Succ(store, u)) \o Tail(stack),
                           Append(order, u))

Traversal == op \in {"bfs", "dfs"}
Returned == res.err = "none"
Components == connected_components(vertices, adj).res.val

(***************************************************************************)
(* C1 as stated: bfs and dfs return no vertex twice, and the vertices      *)
(* returned are exactly the component of start in connected_components.    *)
(***************************************************************************)
C1_AsStated ==
    (Traversal /\ Returned) =>
        /\ NoRepeat(res.val)
        /\ SeqSet(res.val) = ComponentOf(Components, arg[1])

\* Every record (u, v) of the store has a record (v, u).
SymmetricStore == \A u \in Range0(vertices) : \A v \in Succ(adj, u) : u \in Succ(adj, v)

\* C1, amended: bfs and dfs return no vertex twice; the vertices returned are those
\* reachable from start along the stored records; they lie in the component of
\* start, and they are the whole component when every record has its reverse.
C1_VisitedSet ==
    (Traversal /\ Returned) =>
        LET component == ComponentOf(Components, arg[1])
        IN  /\ NoRepeat(res.val)
            /\ SeqSet(res.val) = ReachFrom(adj, {arg[1]})
            /\ SeqSet(res.val) \subseteq component
            /\ SymmetricStore => SeqSet(res.val) = component

C1_Witness ==
    /\ op = "dfs" /\ Returned /\ directed
    /\ Len(res.val) = 2
    /\ Cardinality(ComponentOf(Components, arg[1])) = 4

\* The node_count values of a list of statistics, added up.
RECURSIVE SumNodeCounts(_, _)
SumNodeCounts(stats, k) ==
    IF k > Len(stats) THEN 0 ELSE stats[k].node_count + SumNodeCounts(stats, k + 1)

(***************************************************************************)
(* C2: connected_components returns the classes of reachability ignoring   *)
(* direction: every vertex lies in exactly one component, two vertices     *)
(* share a component exactly when a path of stored records, usable in both *)
(* directions, joins them; the node_count values of components_with_stats  *)
(* add up to the vertex count.                                             *)
(***************************************************************************)
C2_WeakComponents ==
    /\ op = "connected_components" =>
        /\ \A k \in 1 .. Len(res.val) :
               NoRepeat(res.val[k]) /\ SeqSet(res.val[k]) \subseteq Range0(vertices)
        /\ \A v \in Range0(vertices) :
               Cardinality({k \in 1 .. Len(res.val) : v \in SeqSet(res.val[k])}) = 1
        /\ \A u \in Range0(vertices), v \in Range0(vertices) :
               (v \in ComponentOf(res.val, u)) <=> (v \in JoinedTo(adj, {u}))
    /\ op = "components_with_stats" => SumNodeCounts(res.val, 1) = vertices

C2_Witness ==
    /\ op = "connected_components" /\ directed
    /\ Len(res.val) = 2
    /\ \E k \in 1 .. Len(res.val) :
           /\ Len(res.val[k]) = 3
           /\ ReachFrom(adj, {res.val[k][1]}) # SeqSet(res.val[k])

\* The distinct edges of the graph: ordered pairs when directed, unordered when not.
LogicalEdges ==
    LET stored == {e \in Range0(vertices) \X Range0(vertices) : e[2] \in Succ(adj, e[1])}
    IN  IF directed THEN stored ELSE {{e[1], e[2]} : e \in stored}

\* The number of columns of an incidence matrix (its rows are equally long).
ColumnCount(matrix) == IF vertices = 0 THEN 0 ELSE Len(matrix[0])

(***************************************************************************)
(* C3 as stated: the incidence matrix has one column per distinct logical  *)
(* edge; in an undirected graph an edge {u,v} gives one column however     *)
(* many records the store holds for it, in a directed graph the columns    *)
(* number the distinct directed edges.                                     *)
(***************************************************************************)
C3_AsStated ==
    op = "get_incidence_matrix" => ColumnCount(res.val) = Cardinality(LogicalEdges)

\* The positions <<u, i>> of the records the store holds for the vertices of comp.
Positions(comp) == UNION {{<<u, i>> : i \in 1 .. Len(adj[u])} : u \in comp}

\* The records that lie within comp; in an undirected graph those with u < v.
RecordsWithin(comp) ==
    {p \in Positions(comp) :
        /\ adj[p[1]][p[2]][1] \in comp
        /\ directed \/ p[1] < adj[p[1]][p[2]][1]}

StrictlyBefore(a, b) ==
    \/ a.node_count > b.node_count
    \/ a.node_count = b.node_count /\ a.edge_count > b.edge_count
    \/ /\ a.node_count = b.node_count
       /\ a.edge_count = b.edge_count
       /\ a.smallest_vertex < b.smallest_vertex

(***************************************************************************)
(* C5: the records of components_with_stats are in descending node_count,  *)
(* then descending edge_count, then ascending smallest_vertex, and each    *)
(* record comes strictly before the next: no two agree on all three keys.  *)
(***************************************************************************)
C5_StatsOrder ==
    op = "components_with_stats" =>
        /\ \A k \in 1 .. Len(res.val) - 1 : StrictlyBefore(res.val[k], res.val[k + 1])
        /\ \A i \in 1 .. Len(res.val), j \in 1 .. Len(res.val) :
               i # j => \/ res.val[i].node_count # res.val[j].node_count
                        \/ res.val[i].edge_count # res.val[j].edge_count
                        \/ res.val[i].smallest_vertex # res.val[j].smallest_vertex

C5_Witness ==
    /\ op = "components_with_stats"
    /\ Len(res.val) = 2
    /\ res.val[1].node_count = res.val[2].node_count
    /\ res.val[1].edge_count > res.val[2].edge_count
    /\ res.val[1].smallest_vertex > res.val[2].smallest_vertex

\* Components ascending inside, and ascending by smallest vertex.
ComponentsOrdered(comps) ==
    /\ \A k \in 1 .. Len(comps) : comps[k] # <<>> /\ StrictlyAscending(comps[k])
    /\ \A k \in 1 .. Len(comps) - 1 : comps[k][1] < comps[k + 1][1]

(***************************************************************************)
(* C6: in the result of connected_components every component is strictly   *)
(* ascending and the components come in strictly ascending order of their  *)
(* smallest vertex; a second call on the unchanged graph returns the same. *)
(***************************************************************************)
C6_ComponentsOrdered ==
    [][op' = "connected_components" =>
          /\ ComponentsOrdered(res'.val)
          /\ (op = "connected_components" /\ adj' = adj) => res' = res]_vars

C6_Witness ==
    /\ op = "connected_components"
    /\ vertices = 3
    /\ Len(res.val) = 1
    /\ Len(adj[0]) = 1 /\ adj[0][1][1] = 2
    /\ Len(adj[1]) = 1

\* A neighbour list in ascending order of neighbour, and two lists with the same
\* records.
NeighboursAscending(l) == \A k \in 1 .. Len(l) - 1 : l[k][1] <= l[k + 1][1]

SameRecords(l, m) ==
    /\ Len(l) = Len(m)
    /\ \A t \in SeqSet(l) \cup SeqSet(m) :
           Cardinality({k \in 1 .. Len(l) : l[k] = t})
               = Cardinality({k \in 1 .. Len(m) : m[k] = t})

\* What each query returns on a store.
QueryResults(store) ==
    <<get_adjacency_list(store).view,
      get_adjacency_matrix(vertices, store),
      get_incidence_matrix(vertices, directed, store),
      [s \in Range0(vertices) |-> bfs(vertices, store, s).res],
      [s \in Range0(vertices) |-> dfs(vertices, store, s).res],
      connected_components(vertices, store).res>>

(***************************************************************************)
(* C7: get_adjacency_list returns a new mapping of new lists, each sorted  *)
(* ascending by neighbour and holding the records of the store; the call   *)
(* leaves the store as it was, insertion order included; and whatever the  *)
(* caller does to the returned mapping or its lists leaves the store, and  *)
(* so the result of every later call, unchanged.                           *)
(***************************************************************************)
C7_IndependentCopy ==
    [][/\ op' = "get_adjacency_list" =>
            /\ adj' = adj
            /\ shared' = NoSharing
            /\ DOMAIN res'.val = Range0(vertices)
            /\ \A u \in Range0(vertices) :
                   NeighboursAscending(res'.val[u]) /\ SameRecords(res'.val[u], adj[u])
       /\ op' = "mutate_view" =>
            /\ adj' = adj
            /\ QueryResults(adj') = QueryResults(adj)]_vars

C7_Witness ==
    /\ op = "mutate_view"
    /\ \E u \in Range0(vertices) :
           /\ ~NeighboursAscending(adj[u])
           /\ res.val[u] # get_adjacency_list(adj).view[u]

(***************************************************************************)
(* C8: bfs returns the vertices in FIFO order, neighbours taken ascending: *)
(* the first is start, hop distances from start never decrease along the   *)
(* result, and the result is the breadth-first order of the set of edges,  *)
(* whatever the order in which they were inserted.                         *)
(***************************************************************************)
C8_BfsOrder ==
    (op = "bfs" /\ Returned) =>
        LET dist == HopDistance(adj, arg[1])
        IN  /\ res.val # <<>> /\ res.val[1] = arg[1]
            /\ \A k \in 1 .. Len(res.val) - 1 : dist[res.val[k]] <= dist[res.val[k + 1]]
            /\ res.val = ReferenceBfs(adj, {arg[1]}, <<arg[1]>>, <<>>)

C8_Witness ==
    /\ op = "bfs" /\ Returned
    /\ Len(res.val) = 4
    /\ ~NeighboursAscending(adj[arg[1]])
    /\ HopDistance(adj, arg[1])[res.val[4]] = 2

(***************************************************************************)
(* C9: dfs returns the ascending preorder: a vertex is recorded when first *)
(* entered and the whole subtree of a neighbour before the next neighbour; *)
(* the result is that of the explicit-stack search that pushes neighbours  *)
(* in reversed order.                                                      *)
(***************************************************************************)
C9_DfsPreorder ==
    (op = "dfs" /\ Returned) =>
        res.val = StackDfs(adj, {}, <<arg[1]>>, <<>>)

C9_Witness ==
    /\ op = "dfs" /\ Returned
    /\ Len(res.val) = 4
    /\ res.val # bfs(vertices, adj, arg[1]).res.val
    /\ ~NeighboursAscending(adj[arg[1]])

(***************************************************************************)
(* C10: bfs and dfs raise IndexError for every start outside               *)
(* [0, vertices), before the adjacency list is read and with the graph     *)
(* unchanged; for every start in range they return a result.               *)
(***************************************************************************)
C10_StartChecked ==
    [][op' \in {"bfs", "dfs"} =>
          IF arg'[1] \in Range0(vertices)
          THEN res'.err = "none"
          ELSE res'.err = "IndexError" /\ calls' = 0 /\ adj' = adj]_vars

C10_Witness ==
    /\ op = "dfs"
    /\ vertices = 0
    /\ res.err = "IndexError"
    /\ calls = 0

====
